---------------------------- MODULE Spec2Model ----------------------------
(***************************************************************************)
(* Model of the mobile-trackpad service (src/src/main.rs): the websocket   *)
(* sessions (handle_websocket), the virtual input device behind its mutex  *)
(* (MouseController::handle_event), the clipboard broadcast channel, and   *)
(* the file store (handle_upload, cleanup_old_files, the /files and        *)
(* /download routes).                                                      *)
(*                                                                         *)
(* Every task of the program is a process of the model; one action is one  *)
(* step a task takes between two points where another thread can observe  *)
(* it (a lock acquisition, a channel operation, a write, an await).        *)
(***************************************************************************)
EXTENDS Integers, Sequences, FiniteSets, TLC

(***************************************************************************)
(* Bounds of the model.                                                    *)
(***************************************************************************)
\* Frames one connection receives in one run of Spec, SpecDevice, SpecHub.
MaxMsgs == 2
DevMsgs == 1
HubMsgs == 2
\* Capacity of the clipboard channel, scaled down from broadcast::channel(100)
\* (main.rs:383) so that a backlog can exceed it within MaxPub publications.
Capacity == 2
\* Publications to the clipboard channel in one run.
MaxPub == 3
\* Steps of the wall clock in one run.
MaxTicks == 2

\* Seconds a file lives (main.rs:350).
TTL == 3600

\* The connections of a run.
Sessions == {1, 2}
\* The upload requests of a run.
Uploads == {1, 2}
\* The download requests of a run.
Downloads == {1}

None == 0

(***************************************************************************)
(* Sequence helpers.                                                       *)
(***************************************************************************)
Range(q) == {q[i] : i \in 1..Len(q)}

Sel(q, P(_)) == SelectSeq(q, P)

IsPrefix(p, q) == Len(p) <= Len(q) /\ SubSeq(q, 1, Len(p)) = p

(***************************************************************************)
(* Numbers.  The protocol carries f64 deltas; a delta is modelled as an    *)
(* integer number of hundredths (n stands for n/100).                      *)
(***************************************************************************)
\* Integer division rounding toward zero: Rust's `as i32` on an f64.
TruncDiv(n, d) == IF n >= 0 THEN n \div d ELSE -((-n) \div d)

Abs(n) == IF n >= 0 THEN n ELSE -n

\* `x as i32` for x = n/100.
AsI32(n) == TruncDiv(n, 100)

(***************************************************************************)
(* Inbound frames and their decoding (main.rs:244-248).  A frame is what   *)
(* ws_rx.next() yields: Ok(text frame), Ok(other frame), Err, or the end   *)
(* of the stream.  A text frame's JSON is a record of fields.              *)
(***************************************************************************)
Text(json) == [frame |-> "text", json |-> json]

BinaryFrame == [frame |-> "binary", json |-> << >>]
ErrFrame == [frame |-> "err", json |-> << >>]
EndFrame == [frame |-> "end", json |-> << >>]

\* Frames after which ws_rx yields nothing more.
IsLast(m) == m.frame \in {"err", "end"}

\* The tag names of TrackpadEvent (main.rs:13-32) and each variant's fields.
EventTags == {"move", "click", "scroll", "drag_start", "drag_end", "swipe",
              "arrow_key", "clipboard"}

NumFields(tag) ==
    CASE tag \in {"move", "scroll"} -> {"dx", "dy"}
      [] OTHER -> {}

StrFields(tag) ==
    CASE tag = "click" -> {"button"}
      [] tag = "swipe" -> {"direction"}
      [] tag = "arrow_key" -> {"key"}
      [] tag = "clipboard" -> {"content"}
      [] OTHER -> {}

\* A JSON value: a number or a string.
JNum(n) == [t |-> "num", v |-> n]
JStr(x) == [t |-> "str", v |-> x]

\* serde_json::from_str::<TrackpadEvent>(text).is_ok(): an object with a known
\* "type" tag and every field of that variant present with the right JSON type.
WellFormedJson(j) ==
    /\ "type" \in DOMAIN j
    /\ j["type"].t = "str"
    /\ j["type"].v \in EventTags
    /\ \A f \in NumFields(j["type"].v) : f \in DOMAIN j /\ j[f].t = "num"
    /\ \A f \in StrFields(j["type"].v) : f \in DOMAIN j /\ j[f].t = "str"

\* msg.to_str() then from_str (main.rs:247-248): does the frame hold an event?
Decodes(m) == m.frame = "text" /\ WellFormedJson(m.json)

\* The decoded event: the variant's tag and exactly its fields.
Decode(m) ==
    LET j == m.json
        tag == j["type"].v
        keep == {"type"} \cup NumFields(tag) \cup StrFields(tag)
    IN  [f \in keep |-> j[f].v]

IsClipboard(m) == Decodes(m) /\ m.json["type"].v = "clipboard"

(***************************************************************************)
(* The event translator: MouseController::handle_event's match             *)
(* (main.rs:87-203).  A DeviceAction is <<type, code, value>>; a gesture   *)
(* is the slice one emit call writes; an event yields a sequence of        *)
(* gestures.                                                               *)
(***************************************************************************)
Syn == <<"SYN", "SYN_REPORT", 0>>
Rel(axis, v) == <<"REL", axis, v>>
Key(code, v) == <<"KEY", code, v>>

ButtonKey(button) ==
    CASE button = "left" -> "BTN_LEFT"
      [] button = "right" -> "BTN_RIGHT"
      [] button = "middle" -> "BTN_MIDDLE"
      [] OTHER -> "BTN_LEFT"

SwipeKeyAnyCase(direction) ==
    CASE direction \in {"left", "Left"} -> "KEY_LEFT"
      [] direction = "right" -> "KEY_RIGHT"
      [] OTHER -> "none"
SwipeKey(direction) ==
    CASE direction = "left" -> "KEY_LEFT"
      [] direction = "right" -> "KEY_RIGHT"
      [] OTHER -> "none"

ArrowKeyCode(key) ==
    CASE key = "up" -> "KEY_UP"
      [] key = "down" -> "KEY_DOWN"
      [] key = "left" -> "KEY_LEFT"
      [] key = "right" -> "KEY_RIGHT"
      [] OTHER -> "none"

MoveGestures(e) ==
    << <<Rel("REL_X", AsI32(e.dx)), Rel("REL_Y", AsI32(e.dy)), Syn>> >>

ClickGestures(e) ==
    LET key == ButtonKey(e.button)
    IN  << <<Key(key, 1), Syn>>, <<Key(key, 0), Syn>> >>

ScrollGestures(e) ==
    LET wheel == IF Abs(e.dy) > 10
                 THEN <<Rel("REL_WHEEL", TruncDiv(e.dy, 1000))>> ELSE << >>
        hwheel == IF Abs(e.dx) > 10
                  THEN <<Rel("REL_HWHEEL", TruncDiv(-e.dx, 1000))>> ELSE << >>
    IN  << wheel \o hwheel \o <<Syn>> >>

DragStartGestures == << <<Key("BTN_LEFT", 1), Syn>> >>

DragEndGestures == << <<Key("BTN_LEFT", 0), Syn>> >>

SwipeGestures(e) ==
    LET arrow == SwipeKey(e.direction)
    IN  IF arrow = "none" THEN << >>
        ELSE << <<Key("KEY_LEFTALT", 1), Syn>>, <<Key(arrow, 1), Syn>>,
                <<Key(arrow, 0), Syn>>, <<Key("KEY_LEFTALT", 0), Syn>> >>

ArrowKeyGestures(e) ==
    LET arrow == ArrowKeyCode(e.key)
    IN  IF arrow = "none" THEN << >>
        ELSE << <<Key(arrow, 1), Syn>>, <<Key(arrow, 0), Syn>> >>

\* The gestures handle_event emits for a decoded event, in order.
Translate(e) ==
    CASE e.type = "move" -> MoveGestures(e)
      [] e.type = "click" -> ClickGestures(e)
      [] e.type = "scroll" -> ScrollGestures(e)
      [] e.type = "drag_start" -> DragStartGestures
      [] e.type = "drag_end" -> DragEndGestures
      [] e.type = "swipe" -> SwipeGestures(e)
      [] e.type = "arrow_key" -> ArrowKeyGestures(e)
      [] OTHER -> << >>

(***************************************************************************)
(* State.                                                                  *)
(***************************************************************************)
VARIABLES
    \* --- one websocket connection per session (handle_websocket) ---
    arrived,   \* history: every frame the transport has delivered, in order
    inbox,     \* ws_rx: indexes into arrived of the frames not yet read
    hand,      \* index into arrived of the frame being handled, or None
    pc,        \* position of the connection's main task
    cur,       \* handle_event: the gestures still to emit
    out,       \* ws_tx: every message written to the connection, in order
    writing,   \* the tasks with a write to ws_tx in progress
    wsLock,    \* holder of the tokio Mutex around ws_tx
    fpc,       \* position of the forwarding task
    cursor,    \* clipboard_rx: channel items this receiver has taken
    subPos,    \* history: channel length when the session subscribed, or -1
    \* --- the virtual device (MouseController) ---
    devLock,   \* holder of the std Mutex around the device, or None
    devOut,    \* every DeviceAction written, in order, tagged with its origin
    results,   \* history: what handle_event returned for each event, Ok or Err
    \* --- the clipboard channel (broadcast::channel) ---
    hubLog,    \* every item sent into the channel, in order
    \* --- the file store ---
    now,       \* the wall clock, seconds
    index,     \* file_storage: the FileInfo records, keyed by id
    blobs,     \* ./uploads: the files, [id, data]
    poisoned,  \* file_storage's mutex was held by a task that panicked
    upc,       \* position of each upload request
    upl,       \* locals of each upload request
    spc,       \* position of cleanup_old_files
    snow,      \* cleanup_old_files: now of the current pass
    expired,   \* cleanup_old_files: ids still to remove in this pass
    scur,      \* cleanup_old_files: id whose blob is being deleted, or None
    sweepSeen, \* history: the index as the current pass's snapshot saw it
    unlinkFailed, \* history: ids whose remove_file failed
    swept,     \* history: a pass has finished
    removed,   \* history: ids the sweep has taken out of the index
    dpc,       \* position of each download request
    dl         \* locals of each download request, and its reply

sessVars == <<arrived, inbox, hand, pc, cur, out, writing, wsLock, fpc, cursor, subPos>>
devVars == <<devLock, devOut, results>>
getVars == <<dpc, dl>>
fileVars == <<index, blobs, poisoned, upc, upl, spc, snow, expired, scur,
              sweepSeen, unlinkFailed, swept, removed, getVars>>
vars == <<sessVars, devVars, hubLog, now, fileVars>>

Init ==
    /\ arrived = [s \in Sessions |-> << >>]
    /\ inbox = [s \in Sessions |-> << >>]
    /\ hand = [s \in Sessions |-> None]
    /\ pc = [s \in Sessions |-> "idle"]
    /\ cur = [s \in Sessions |-> << >>]
    /\ out = [s \in Sessions |-> << >>]
    /\ writing = [s \in Sessions |-> {}]
    /\ wsLock = [s \in Sessions |-> "free"]
    /\ fpc = [s \in Sessions |-> "none"]
    /\ cursor = [s \in Sessions |-> 0]
    /\ subPos = [s \in Sessions |-> -1]
    /\ devLock = None
    /\ devOut = << >>
    /\ results = {}
    /\ hubLog = << >>
    /\ now = 0
    /\ index = {}
    /\ blobs = {}
    /\ poisoned = FALSE
    /\ upc = [u \in Uploads |-> "idle"]
    /\ upl = [u \in Uploads |-> << >>]
    /\ spc = "sleep"
    /\ snow = 0
    /\ expired = {}
    /\ scur = None
    /\ sweepSeen = {}
    /\ unlinkFailed = {}
    /\ swept = FALSE
    /\ removed = {}
    /\ dpc = [d \in Downloads |-> "idle"]
    /\ dl = [d \in Downloads |-> << >>]

(***************************************************************************)
(* The transport: frames arrive on a connection; the peer closes it.       *)
(***************************************************************************)
\* The connection is open until the transport has signalled its end or an error.
ConnOpen(s) == \A i \in 1..Len(arrived[s]) : ~IsLast(arrived[s][i])

\* Publications made or still to come from what has already been accepted.
ClipFrames(s) == Cardinality({i \in 1..Len(arrived[s]) : IsClipboard(arrived[s][i])})

RECURSIVE SumOver(_, _)
SumOver(S, f) ==
    IF S = {} THEN 0
    ELSE LET x == CHOOSE y \in S : TRUE IN f[x] + SumOver(S \ {x}, f)

PendingPubs ==
    SumOver(Sessions, [s \in Sessions |-> ClipFrames(s)])
    + Cardinality({u \in Uploads : upc[u] \notin {"idle", "nofile"}})

\* A data frame arrives on an open connection.
Arrive(s, m) ==
    /\ pc[s] # "idle"
    /\ ConnOpen(s)
    /\ ~IsLast(m)
    /\ arrived' = [arrived EXCEPT ![s] = Append(@, m)]
    /\ inbox' = [inbox EXCEPT ![s] = Append(@, Len(arrived[s]) + 1)]
    /\ UNCHANGED <<hand, pc, cur, out, writing, wsLock, fpc, cursor, subPos>>
    /\ UNCHANGED <<devVars, hubLog, now, fileVars>>

\* The transport signals close (the stream ends) or an error.
Close(s, m) ==
    /\ pc[s] # "idle"
    /\ ConnOpen(s)
    /\ IsLast(m)
    /\ arrived' = [arrived EXCEPT ![s] = Append(@, m)]
    /\ inbox' = [inbox EXCEPT ![s] = Append(@, Len(arrived[s]) + 1)]
    /\ UNCHANGED <<hand, pc, cur, out, writing, wsLock, fpc, cursor, subPos>>
    /\ UNCHANGED <<devVars, hubLog, now, fileVars>>

(***************************************************************************)
(* handle_websocket: the connection's main task (main.rs:209-276).         *)
(***************************************************************************)
\* ws.on_upgrade runs handle_websocket (main.rs:406, 214).
Connect(s) ==
    /\ pc[s] = "idle"
    /\ pc' = [pc EXCEPT ![s] = "ack"]
    /\ UNCHANGED <<arrived, inbox, hand, cur, out, writing, wsLock, fpc, cursor, subPos>>
    /\ UNCHANGED <<devVars, hubLog, now, fileVars>>

ConnectedMsg == [type |-> "connected", content |-> <<"Trackpad connected successfully">>,
                 timestamp |-> 0, source |-> "", n |-> 0]

\* ws_tx.send(connected) starts (main.rs:220).
AckBegin(s) ==
    /\ pc[s] = "ack"
    /\ pc' = [pc EXCEPT ![s] = "acking"]
    /\ writing' = [writing EXCEPT ![s] = @ \cup {"main"}]
    /\ UNCHANGED <<arrived, inbox, hand, cur, out, wsLock, fpc, cursor, subPos>>
    /\ UNCHANGED <<devVars, hubLog, now, fileVars>>

\* ws_tx.send(connected) returns; its result is dropped (`let _ =`).
AckEnd(s) ==
    /\ pc[s] = "acking"
    /\ pc' = [pc EXCEPT ![s] = "subscribe"]
    /\ writing' = [writing EXCEPT ![s] = @ \ {"main"}]
    /\ out' = [out EXCEPT ![s] = IF ConnOpen(s) THEN Append(@, ConnectedMsg) ELSE @]
    /\ UNCHANGED <<arrived, inbox, hand, cur, wsLock, fpc, cursor, subPos>>
    /\ UNCHANGED <<devVars, hubLog, now, fileVars>>

\* Where a new receiver starts reading: at the channel's tail.
SubscribeFromStart(log) == 0
SubscribeAt(log) == Len(log)

\* clipboard_tx.subscribe() (main.rs:223).
Subscribe(s) ==
    /\ pc[s] = "subscribe"
    /\ pc' = [pc EXCEPT ![s] = "spawn"]
    /\ cursor' = [cursor EXCEPT ![s] = SubscribeAt(hubLog)]
    /\ subPos' = [subPos EXCEPT ![s] = Len(hubLog)]
    /\ UNCHANGED <<arrived, inbox, hand, cur, out, writing, wsLock, fpc>>
    /\ UNCHANGED <<devVars, hubLog, now, fileVars>>

\* tokio::spawn of the forwarding task (main.rs:224-242).
Spawn(s) ==
    /\ pc[s] = "spawn"
    /\ pc' = [pc EXCEPT ![s] = "loop"]
    /\ fpc' = [fpc EXCEPT ![s] = "recv"]
    /\ UNCHANGED <<arrived, inbox, hand, cur, out, writing, wsLock, cursor, subPos>>
    /\ UNCHANGED <<devVars, hubLog, now, fileVars>>

\* ws_rx.next(): the stream yields its frames in arrival order.
NextFrameNewest(q) == q[Len(q)]
NextFrame(q) == Head(q)

RestFrames(q, i) == SelectSeq(q, LAMBDA j : j # i)

\* Where the main task goes with a frame (main.rs:245-273).
RouteStrict(m) ==
    IF IsLast(m) \/ ~Decodes(m) THEN "done"
    ELSE IF IsClipboard(m) THEN "publish"
    ELSE "lockdev"
Route(m) ==
    IF IsLast(m) THEN "done"
    ELSE IF ~Decodes(m) THEN "loop"
    ELSE IF IsClipboard(m) THEN "publish"
    ELSE "lockdev"

\* `while let Some(result) = ws_rx.next().await` and the decoding of the frame
\* (main.rs:244-250, 270-273).
Take(s) ==
    /\ pc[s] = "loop"
    /\ inbox[s] # << >>
    /\ LET i == NextFrame(inbox[s])
           to == Route(arrived[s][i])
       IN  /\ inbox' = [inbox EXCEPT ![s] = RestFrames(@, i)]
           /\ hand' = [hand EXCEPT ![s] = IF to \in {"publish", "lockdev"} THEN i ELSE None]
           /\ pc' = [pc EXCEPT ![s] = to]
    /\ UNCHANGED <<arrived, cur, out, writing, wsLock, fpc, cursor, subPos>>
    /\ UNCHANGED <<devVars, hubLog, now, fileVars>>

\* The ClipboardItem built for a Clipboard event (main.rs:252-259).  `from` is
\* history: the session and frame the item comes from.
\* A string built by format! is the sequence of its pieces.
ClientItemUntagged(content, t, from) ==
    [content |-> <<content>>, timestamp |-> t, source |-> "", from |-> from]
ClientItem(content, t, from) ==
    [content |-> <<content>>, timestamp |-> t, source |-> "Client", from |-> from]

\* clipboard_tx.send(item) for a Clipboard event; its result is dropped
\* (main.rs:250-260).
Publish(s) ==
    /\ pc[s] = "publish"
    /\ hubLog' = Append(hubLog,
                        ClientItem(Decode(arrived[s][hand[s]]).content, now, <<s, hand[s]>>))
    /\ pc' = [pc EXCEPT ![s] = "loop"]
    /\ hand' = [hand EXCEPT ![s] = None]
    /\ UNCHANGED <<arrived, inbox, cur, out, writing, wsLock, fpc, cursor, subPos>>
    /\ UNCHANGED <<devVars, now, fileVars>>

(***************************************************************************)
(* MouseController::handle_event (main.rs:84-206), called from the main    *)
(* task (main.rs:263).                                                     *)
(***************************************************************************)
\* self.device.lock(): the mutex is free.
DeviceFreeAlways == TRUE
DeviceFree == devLock = None

\* `let mut device = self.device.lock().unwrap()` and the match on the event.
DevLock(s) ==
    /\ pc[s] = "lockdev"
    /\ DeviceFree
    /\ devLock' = s
    /\ cur' = [cur EXCEPT ![s] = Translate(Decode(arrived[s][hand[s]]))]
    /\ pc' = [pc EXCEPT ![s] = "emit"]
    /\ UNCHANGED <<arrived, inbox, hand, out, writing, wsLock, fpc, cursor, subPos>>
    /\ UNCHANGED <<devOut, results, hubLog, now, fileVars>>

\* Number of the gesture being emitted, within its event.
GestureNo(s) == Len(Translate(Decode(arrived[s][hand[s]]))) - Len(cur[s]) + 1

\* The holder of the device mutex between two emit calls of one handle_event:
\* the guard `device` lives until the function returns (main.rs:85, 206).
ReleasedBetween(s) == None
HeldBetween(s) == s

\* device.emit(&events) writes the next DeviceAction of the current gesture.
EmitAction(s) ==
    /\ pc[s] = "emit"
    /\ cur[s] # << >>
    /\ LET g == Head(cur[s])
       IN  /\ devOut' = Append(devOut, [s |-> s, k |-> hand[s], g |-> GestureNo(s),
                                        a |-> Head(g)])
           /\ cur' = [cur EXCEPT ![s] = IF Len(g) = 1 THEN Tail(@)
                                        ELSE <<Tail(g)>> \o Tail(@)]
           /\ devLock' = IF Len(g) = 1 THEN HeldBetween(s) ELSE devLock
    /\ UNCHANGED <<arrived, inbox, hand, pc, out, writing, wsLock, fpc, cursor, subPos>>
    /\ UNCHANGED <<results, hubLog, now, fileVars>>

\* The holder of the device mutex once `?` has returned an error out of
\* handle_event: the guard `device` is dropped on every return, and no panic
\* poisons the mutex.
GuardKept(s) == s
GuardDropped(s) == None

\* device.emit fails: `?` returns the error, the guard is dropped, and the main
\* task logs it and goes on (main.rs:263-265).
EmitFail(s) ==
    /\ pc[s] = "emit"
    /\ cur[s] # << >>
    /\ cur' = [cur EXCEPT ![s] = << >>]
    /\ devLock' = GuardDropped(s)
    /\ results' = results \cup {[s |-> s, k |-> hand[s], ok |-> FALSE]}
    /\ pc' = [pc EXCEPT ![s] = "loop"]
    /\ hand' = [hand EXCEPT ![s] = None]
    /\ UNCHANGED <<arrived, inbox, out, writing, wsLock, fpc, cursor, subPos>>
    /\ UNCHANGED <<devOut, hubLog, now, fileVars>>

\* handle_event returns Ok(()): the guard is dropped (main.rs:157, 186, 205).
DevReturn(s) ==
    /\ pc[s] = "emit"
    /\ cur[s] = << >>
    /\ devLock' = None
    /\ results' = results \cup {[s |-> s, k |-> hand[s], ok |-> TRUE]}
    /\ pc' = [pc EXCEPT ![s] = "loop"]
    /\ hand' = [hand EXCEPT ![s] = None]
    /\ UNCHANGED <<arrived, inbox, cur, out, writing, wsLock, fpc, cursor, subPos>>
    /\ UNCHANGED <<devOut, hubLog, now, fileVars>>

(***************************************************************************)
(* The forwarding task (main.rs:228-242).                                  *)
(***************************************************************************)
\* The receiver's backlog exceeds the channel's capacity: recv() yields
\* Err(Lagged).
Lagged(s) == Len(hubLog) - cursor[s] > Capacity

\* The position recv() moves the receiver to.
RecvNewest(s) == Len(hubLog)
RecvNext(s) == cursor[s] + 1

\* `while let Ok(item) = clipboard_rx.recv().await`: an item is there.
FwdRecv(s) ==
    /\ fpc[s] = "recv"
    /\ cursor[s] < Len(hubLog)
    /\ IF Lagged(s)
       THEN /\ fpc' = [fpc EXCEPT ![s] = "done"]
            /\ UNCHANGED cursor
       ELSE /\ fpc' = [fpc EXCEPT ![s] = "lock"]
            /\ cursor' = [cursor EXCEPT ![s] = RecvNext(s)]
    /\ UNCHANGED <<arrived, inbox, hand, pc, cur, out, writing, wsLock, subPos>>
    /\ UNCHANGED <<devVars, hubLog, now, fileVars>>

\* The holder of the send lock once the forwarding task has locked it.
LockSkipped == "free"
LockTaken == "fwd"

\* ws_tx_clone.lock().await, then tx.send(msg) starts (main.rs:237-238).
FwdLockSend(s) ==
    /\ fpc[s] = "lock"
    /\ wsLock[s] = "free"
    /\ wsLock' = [wsLock EXCEPT ![s] = LockTaken]
    /\ writing' = [writing EXCEPT ![s] = @ \cup {"fwd"}]
    /\ fpc' = [fpc EXCEPT ![s] = "sending"]
    /\ UNCHANGED <<arrived, inbox, hand, pc, cur, out, cursor, subPos>>
    /\ UNCHANGED <<devVars, hubLog, now, fileVars>>

\* The clipboard_history message for the item at position n (main.rs:230-235).
HistoryMsg(n) ==
    [type |-> "clipboard_history", content |-> hubLog[n].content,
     timestamp |-> hubLog[n].timestamp, source |-> hubLog[n].source, n |-> n]

\* tx.send(msg) returns: Ok, and the loop goes on, or Err on a closed
\* connection, and the loop breaks (main.rs:238-240).
FwdSendEnd(s) ==
    /\ fpc[s] = "sending"
    /\ wsLock' = [wsLock EXCEPT ![s] = "free"]
    /\ writing' = [writing EXCEPT ![s] = @ \ {"fwd"}]
    /\ IF ConnOpen(s)
       THEN /\ out' = [out EXCEPT ![s] = Append(@, HistoryMsg(cursor[s]))]
            /\ fpc' = [fpc EXCEPT ![s] = "recv"]
       ELSE /\ fpc' = [fpc EXCEPT ![s] = "done"]
            /\ UNCHANGED out
    /\ UNCHANGED <<arrived, inbox, hand, pc, cur, cursor, subPos>>
    /\ UNCHANGED <<devVars, hubLog, now, fileVars>>


(***************************************************************************)
(* The wall clock (SystemTime::now).                                       *)
(***************************************************************************)
Tick(d) ==
    /\ now' = now + d
    /\ UNCHANGED <<sessVars, devVars, hubLog, fileVars>>

(***************************************************************************)
(* The file store: list and get (main.rs:438-472).                         *)
(***************************************************************************)
\* GET /files: storage.values() (main.rs:441-445).
List == index

\* storage.get(&file_id) (main.rs:454).
Has(id) == \E r \in index : r.id = id
Get(id) == CHOOSE r \in index : r.id = id

\* ./uploads/<id> exists.
HasBlob(id) == \E b \in blobs : b.id = id
Blob(id) == (CHOOSE b \in blobs : b.id = id).data

WithoutId(S, id) == {x \in S : x.id # id}

(***************************************************************************)
(* handle_upload (main.rs:278-335).  Upload u is given the fresh id u      *)
(* (Uuid::new_v4).                                                         *)
(***************************************************************************)
\* part.filename().unwrap_or("unnamed") (main.rs:287).
FileName(part) == IF part.named THEN part.filename ELSE "unnamed"

\* The request has no "file" part (main.rs:285-286, 334).
UploadNoFile(u) ==
    /\ upc[u] = "idle"
    /\ upc' = [upc EXCEPT ![u] = "nofile"]
    /\ UNCHANGED <<index, blobs, poisoned, upl, spc, snow, expired, scur,
                   sweepSeen, unlinkFailed, swept>>
    /\ UNCHANGED removed
    /\ UNCHANGED <<getVars, sessVars, devVars, hubLog, now>>

\* The "file" part is found: filename, id and uploaded_at are fixed
\* (main.rs:286-292).  `named` is history: the part came with a filename.
UploadStart(u, part) ==
    /\ upc[u] = "idle"
    /\ upc' = [upc EXCEPT ![u] = "create"]
    /\ upl' = [upl EXCEPT ![u] = [id |-> u, filename |-> FileName(part),
                                  named |-> part.named,
                                  chunks |-> part.chunks, data |-> << >>,
                                  uploaded_at |-> now]]
    /\ UNCHANGED <<index, blobs, poisoned, spc, snow, expired, scur,
                   sweepSeen, unlinkFailed, swept>>
    /\ UNCHANGED removed
    /\ UNCHANGED <<getVars, sessVars, devVars, hubLog, now>>

\* fs::File::create(&file_path) (main.rs:297-298): the blob exists, empty.
UploadCreate(u) ==
    /\ upc[u] = "create"
    /\ upc' = [upc EXCEPT ![u] = "write"]
    /\ blobs' = WithoutId(blobs, upl[u].id) \cup {[id |-> upl[u].id, data |-> << >>]}
    /\ UNCHANGED <<index, poisoned, upl, spc, snow, expired, scur,
                   sweepSeen, unlinkFailed, swept>>
    /\ UNCHANGED removed
    /\ UNCHANGED <<getVars, sessVars, devVars, hubLog, now>>

\* The bytes the loop over part.data() collects (main.rs:301-306): a chunk that
\* is an Err is skipped.
RECURSIVE Collect(_)
Collect(chunks) ==
    IF chunks = << >> THEN << >>
    ELSE (IF Head(chunks).ok THEN Head(chunks).bytes ELSE << >>) \o Collect(Tail(chunks))

\* What handle_upload does once write_all has returned: it inserts the record,
\* and only then notifies (main.rs:309-325).
NotifyNext == "notify"
InsertNext == "insert"

\* The part's data is collected and file.write_all(&data) writes it
\* (main.rs:300-309).
UploadWrite(u) ==
    /\ upc[u] = "write"
    /\ upc' = [upc EXCEPT ![u] = InsertNext]
    /\ upl' = [upl EXCEPT ![u].data = Collect(upl[u].chunks)]
    /\ blobs' = WithoutId(blobs, upl[u].id)
                     \cup {[id |-> upl[u].id, data |-> Collect(upl[u].chunks)]}
    /\ UNCHANGED <<index, poisoned, spc, snow, expired, scur,
                   sweepSeen, unlinkFailed, swept>>
    /\ UNCHANGED removed
    /\ UNCHANGED <<getVars, sessVars, devVars, hubLog, now>>

\* File::create or write_all fails: unwrap() panics and the request ends
\* (main.rs:298, 309).
UploadIoFail(u) ==
    /\ upc[u] \in {"create", "write"}
    /\ upc' = [upc EXCEPT ![u] = "panicked"]
    /\ UNCHANGED <<index, blobs, poisoned, upl, spc, snow, expired, scur,
                   sweepSeen, unlinkFailed, swept>>
    /\ UNCHANGED removed
    /\ UNCHANGED <<getVars, sessVars, devVars, hubLog, now>>

\* The FileInfo of an upload (main.rs:308, 311-316).
FileInfo(l) ==
    [id |-> l.id, filename |-> l.filename, size |-> Len(l.data),
     uploaded_at |-> l.uploaded_at]

\* file_storage.lock().unwrap().insert(id, file_info) (main.rs:318); unwrap()
\* panics on a poisoned mutex.
UploadInsert(u) ==
    /\ upc[u] = "insert"
    /\ IF poisoned
       THEN /\ upc' = [upc EXCEPT ![u] = "panicked"]
            /\ UNCHANGED index
       ELSE /\ upc' = [upc EXCEPT ![u] = "notify"]
            /\ index' = WithoutId(index, upl[u].id) \cup {FileInfo(upl[u])}
    /\ UNCHANGED <<blobs, poisoned, upl, spc, snow, expired, scur,
                   sweepSeen, unlinkFailed, swept>>
    /\ UNCHANGED removed
    /\ UNCHANGED <<getVars, sessVars, devVars, hubLog, now>>

\* The notification of an upload (main.rs:321-325).
UploadItem(l) ==
    [content |-> <<"File uploaded: ", l.filename>>, timestamp |-> l.uploaded_at,
     source |-> "System", from |-> <<0, l.id>>]

\* clipboard_tx.send(notification), then the reply (main.rs:320-330).
UploadNotify(u) ==
    /\ upc[u] = "notify"
    /\ upc' = [upc EXCEPT ![u] = "done"]
    /\ hubLog' = Append(hubLog, UploadItem(upl[u]))
    /\ UNCHANGED <<index, blobs, poisoned, upl, spc, snow, expired, scur,
                   sweepSeen, unlinkFailed, swept>>
    /\ UNCHANGED removed
    /\ UNCHANGED <<getVars, sessVars, devVars, now>>

(***************************************************************************)
(* cleanup_old_files (main.rs:337-361).                                    *)
(***************************************************************************)
\* `now - info.uploaded_at` on u64 underflows when uploaded_at > now: a build
\* with overflow checks panics, one without wraps to a value above 2^63.
Underflows(t, uploaded_at) == uploaded_at > t

\* `now - info.uploaded_at > 3600` (main.rs:350), where it does not panic.
ExpiredInclusive(t, uploaded_at) ==
    IF Underflows(t, uploaded_at) THEN TRUE ELSE t - uploaded_at >= TTL
Expired(t, uploaded_at) ==
    IF Underflows(t, uploaded_at) THEN TRUE ELSE t - uploaded_at > TTL

\* The sleep ends and the pass reads the clock (main.rs:339-344).  The sleep
\* runs on the monotonic clock, which the model does not relate to `now`.
SweepWake ==
    /\ spc = "sleep"
    /\ spc' = "snap"
    /\ snow' = now
    /\ UNCHANGED <<index, blobs, poisoned, upc, upl, expired, scur,
                   sweepSeen, unlinkFailed, swept>>
    /\ UNCHANGED removed
    /\ UNCHANGED <<getVars, sessVars, devVars, hubLog, now>>

\* The pass takes its snapshot of the expired ids under the lock
\* (main.rs:346-353).
SweepSnapshot ==
    /\ spc = "snap"
    /\ sweepSeen' = index
    /\ expired' = {r.id : r \in {x \in index : Expired(snow, x.uploaded_at)}}
    /\ spc' = IF expired' = {} THEN "sleep" ELSE "rm"
    /\ swept' = (swept \/ expired' = {})
    /\ UNCHANGED <<index, blobs, poisoned, upc, upl, snow, scur, unlinkFailed>>
    /\ UNCHANGED removed
    /\ UNCHANGED <<getVars, sessVars, devVars, hubLog, now>>

\* In a build with overflow checks the filter panics on an underflow while it
\* holds the lock (main.rs:347-350): the task ends and the mutex is poisoned.
SweepPanic ==
    /\ spc = "snap"
    /\ \E r \in index : Underflows(snow, r.uploaded_at)
    /\ spc' = "panicked"
    /\ poisoned' = TRUE
    /\ UNCHANGED <<index, blobs, upc, upl, snow, expired, scur,
                   sweepSeen, unlinkFailed, swept>>
    /\ UNCHANGED removed
    /\ UNCHANGED <<getVars, sessVars, devVars, hubLog, now>>

\* The first half of removing one expired id: the record leaves the index
\* (file_storage.lock().unwrap().remove(&id), main.rs:355-356).
SweepRemoveBlobFirst(id) ==
    /\ spc = "rm"
    /\ id \in expired
    /\ blobs' = WithoutId(blobs, id)
    /\ scur' = id
    /\ spc' = "unlink"
    /\ UNCHANGED <<index, poisoned, upc, upl, snow, expired, sweepSeen,
                   unlinkFailed, swept>>
    /\ UNCHANGED removed
    /\ UNCHANGED <<getVars, sessVars, devVars, hubLog, now>>
SweepRemoveIndex(id) ==
    /\ spc = "rm"
    /\ id \in expired
    /\ index' = WithoutId(index, id)
    /\ removed' = removed \cup {id}
    /\ scur' = id
    /\ spc' = "unlink"
    /\ UNCHANGED <<blobs, poisoned, upc, upl, snow, expired, sweepSeen,
                   unlinkFailed, swept>>
    /\ UNCHANGED <<getVars, sessVars, devVars, hubLog, now>>

\* Where the pass goes after remove_file: `.ok()` drops the result, and the
\* `for` loop goes on with the ids that are left (main.rs:355-359).
UnlinkUnwrapped(ok, rest) ==
    IF ~ok THEN "panicked" ELSE IF rest = {} THEN "sleep" ELSE "rm"
UnlinkIgnored(ok, rest) == IF rest = {} THEN "sleep" ELSE "rm"

\* fs::remove_file(file_path).await.ok() (main.rs:357-358): the blob is deleted,
\* or the deletion fails and the error is dropped.
SweepUnlink(ok) ==
    /\ spc = "unlink"
    /\ blobs' = IF ok THEN WithoutId(blobs, scur) ELSE blobs
    /\ unlinkFailed' = IF ok THEN unlinkFailed ELSE unlinkFailed \cup {scur}
    /\ expired' = expired \ {scur}
    /\ scur' = None
    /\ spc' = UnlinkIgnored(ok, expired')
    /\ swept' = (swept \/ expired' = {})
    /\ UNCHANGED <<index, poisoned, upc, upl, snow, sweepSeen>>
    /\ UNCHANGED removed
    /\ UNCHANGED <<getVars, sessVars, devVars, hubLog, now>>


(***************************************************************************)
(* The download route (main.rs:448-472).                                   *)
(***************************************************************************)
NotFound == [status |-> "not_found"]

\* The reply to a download: the blob's bytes and the Content-Disposition
\* header, whose value format! builds around the filename (main.rs:460-468).
FileReply(data, filename) ==
    [status |-> "ok", body |-> data,
     disposition |-> <<"attachment; filename=\"", filename, "\"">>]

\* storage.lock().unwrap().get(&file_id).cloned() (main.rs:454-456, 469-471);
\* unwrap() panics on a poisoned mutex.  `after` is history: the upload of that
\* id had already replied.
DownloadLookup(d, id) ==
    /\ dpc[d] = "idle"
    /\ IF poisoned
       THEN /\ dpc' = [dpc EXCEPT ![d] = "panicked"]
            /\ UNCHANGED dl
       ELSE IF Has(id)
       THEN /\ dpc' = [dpc EXCEPT ![d] = "read"]
            /\ dl' = [dl EXCEPT ![d] = [id |-> id, info |-> Get(id),
                                        after |-> upc[id] = "done"]]
       ELSE /\ dpc' = [dpc EXCEPT ![d] = "done"]
            /\ dl' = [dl EXCEPT ![d] = [id |-> id, after |-> upc[id] = "done",
                                        reply |-> NotFound]]
    /\ UNCHANGED <<index, blobs, poisoned, upc, upl, spc, snow, expired, scur,
                   sweepSeen, unlinkFailed, swept>>
    /\ UNCHANGED removed
    /\ UNCHANGED <<sessVars, devVars, hubLog, now>>

\* fs::read(&file_path), then the reply (main.rs:457-468).
DownloadRead(d) ==
    /\ dpc[d] = "read"
    /\ dpc' = [dpc EXCEPT ![d] = "done"]
    /\ dl' = [dl EXCEPT ![d] =
                 [id |-> dl[d].id, after |-> dl[d].after,
                  reply |-> IF HasBlob(dl[d].id)
                            THEN FileReply(Blob(dl[d].id), dl[d].info.filename)
                            ELSE NotFound]]
    /\ UNCHANGED <<index, blobs, poisoned, upc, upl, spc, snow, expired, scur,
                   sweepSeen, unlinkFailed, swept>>
    /\ UNCHANGED removed
    /\ UNCHANGED <<sessVars, devVars, hubLog, now>>

(***************************************************************************)
(* The inputs of a run.                                                    *)
(***************************************************************************)
MoveFrame == Text([type |-> JStr("move"), dx |-> JNum(250), dy |-> JNum(-199)])
ClickFrame == Text([type |-> JStr("click"), button |-> JStr("right")])
ClipFrame == Text([type |-> JStr("clipboard"), content |-> JStr("hello")])
LeftClickFrame == Text([type |-> JStr("click"), button |-> JStr("left")])
DragStartFrame == Text([type |-> JStr("drag_start")])
DragEndFrame == Text([type |-> JStr("drag_end")])
SwipeFrame(d) == Text([type |-> JStr("swipe"), direction |-> JStr(d)])
ArrowFrame(k) == Text([type |-> JStr("arrow_key"), key |-> JStr(k)])
ScrollFrame(dx, dy) == Text([type |-> JStr("scroll"), dx |-> JNum(dx), dy |-> JNum(dy)])
\* Frames that do not decode: not a text frame, not JSON, an unknown tag, a
\* field missing.
GarbageFrame == Text(<< >>)
BogusFrame == Text([type |-> JStr("bogus")])
ShortFrame == Text([type |-> JStr("move"), dx |-> JNum(100)])

DataFrames == {MoveFrame, ClipFrame, BogusFrame}
LastFrames == {EndFrame, ErrFrame}

\* A part of an upload: its filename, if it has one, and the chunks its body
\* arrives in, each Ok(bytes) or an Err in place of the bytes the client sent.
FilePart(named, filename, chunks) ==
    [named |-> named, filename |-> filename, chunks |-> chunks]
OkChunk(bytes) == [ok |-> TRUE, bytes |-> bytes]
ErrChunk(bytes) == [ok |-> FALSE, bytes |-> bytes]

UploadParts == {FilePart(TRUE, "a.txt", <<OkChunk(<<7, 8>>)>>)}

TickSteps == {1, TTL}

(***************************************************************************)
(* The system.                                                             *)
(***************************************************************************)
\* The main task of one connection, up to the routing of a frame.
ConnStep(s) ==
    \/ Connect(s)
    \/ AckBegin(s)
    \/ AckEnd(s)
    \/ Subscribe(s)
    \/ Spawn(s)
    \/ Take(s)

\* handle_event, called by the main task.
DeviceStep(s) ==
    \/ DevLock(s)
    \/ EmitAction(s)
    \/ EmitFail(s)
    \/ DevReturn(s)

ForwardStep(s) ==
    \/ FwdRecv(s)
    \/ FwdLockSend(s)
    \/ FwdSendEnd(s)

\* handle_upload once the "file" part is found.
UploadRun(u) ==
    \/ UploadCreate(u)
    \/ UploadWrite(u)
    \/ UploadIoFail(u)
    \/ UploadInsert(u)
    \/ UploadNotify(u)

UploadStep(u) ==
    \/ UploadNoFile(u)
    \/ \E part \in UploadParts : PendingPubs < MaxPub /\ UploadStart(u, part)
    \/ UploadRun(u)

SweepStep ==
    \/ SweepWake
    \/ SweepSnapshot
    \/ SweepPanic
    \/ \E id \in expired : SweepRemoveIndex(id)
    \/ \E ok \in BOOLEAN : SweepUnlink(ok)

\* Steps the clock has taken to reach t, in steps of 1 s and of TTL s.
TickCount(t) == (t \div TTL) + (t % TTL)

ClockStep == \E d \in TickSteps : TickCount(now + d) <= MaxTicks /\ Tick(d)

\* The environment of a connection: at most n frames, at most MaxPub
\* publications in all.
Feed(s, frames, n) ==
    \E m \in frames :
        /\ Len(arrived[s]) < n
        /\ IsClipboard(m) => PendingPubs < MaxPub
        /\ Arrive(s, m)

\* A sender and a listener: connection 1 receives every kind of frame,
\* connection 2 only listens to the clipboard channel.
Next ==
    \/ Feed(1, DataFrames, MaxMsgs)
    \/ \E m \in LastFrames : Close(1, m)
    \/ ConnStep(1)
    \/ Publish(1)
    \/ DeviceStep(1)
    \/ ForwardStep(1)
    \/ Close(2, EndFrame)
    \/ ConnStep(2)
    \/ ForwardStep(2)

Spec == Init /\ [][Next]_vars

\* One connection that receives every kind of frame, decodable or not, beside
\* an upload.
DecodeFrames == {MoveFrame, ClipFrame, BinaryFrame, GarbageFrame, BogusFrame, ShortFrame}

NextDecode ==
    \/ Feed(1, DecodeFrames, MaxMsgs)
    \/ \E m \in LastFrames : Close(1, m)
    \/ ConnStep(1)
    \/ Publish(1)
    \/ DeviceStep(1)
    \/ ForwardStep(1)
    \/ UploadStep(1)

SpecDecode == Init /\ [][NextDecode]_vars

\* The connections and the device: pointer events from every session.
DeviceFrames == {MoveFrame, ClickFrame}

NextDevice ==
    \/ \E s \in Sessions : Feed(s, DeviceFrames, DevMsgs)
    \/ \E s \in Sessions : ConnStep(s)
    \/ \E s \in Sessions : DeviceStep(s)

SpecDevice == Init /\ [][NextDevice]_vars

\* Two connections on a device whose writes can fail: connection 1 sends
\* clicks and moves, connection 2 moves.
ErrFrames == {MoveFrame, ClickFrame}

NextErr ==
    \/ Feed(1, ErrFrames, MaxMsgs)
    \/ Feed(2, {MoveFrame}, DevMsgs)
    \/ \E s \in Sessions : ConnStep(s)
    \/ \E s \in Sessions : DeviceStep(s)

SpecErr == Init /\ [][NextErr]_vars

\* One connection that swipes.  Directions are matched as exact strings.
SwipeDirections == {"left", "right", "up", "down", "Left", ""}

SwipeFrames == {SwipeFrame(d) : d \in SwipeDirections}

NextSwipe ==
    \/ Feed(1, SwipeFrames, MaxMsgs)
    \/ ConnStep(1)
    \/ DeviceStep(1)

SpecSwipe == Init /\ [][NextSwipe]_vars

\* One connection that scrolls.  Deltas are in hundredths, on both sides of
\* the threshold 0.1 and of the multiples of 10, none at a half.
ScrollDeltas == {-1700, -1000, -11, -10, 0, 10, 11, 600, 1499}

ScrollFrames == {ScrollFrame(dx, dy) : dx \in ScrollDeltas, dy \in ScrollDeltas}

NextScroll ==
    \/ Feed(1, ScrollFrames, DevMsgs)
    \/ ConnStep(1)
    \/ DeviceStep(1)

SpecScroll == Init /\ [][NextScroll]_vars

\* Two connections that send the events of several gestures: connection 1 a
\* click, a swipe or an arrow key, connection 2 an arrow key.
KeyFrames == {ClickFrame, SwipeFrame("left"), ArrowFrame("up")}

NextKeys ==
    \/ Feed(1, KeyFrames, DevMsgs)
    \/ Feed(2, {ArrowFrame("down")}, DevMsgs)
    \/ \E s \in Sessions : ConnStep(s)
    \/ \E s \in Sessions : DeviceStep(s)

SpecKeys == Init /\ [][NextKeys]_vars

\* Two connections that drag and click.
DragFrames == {DragStartFrame, DragEndFrame, LeftClickFrame}

NextDrag ==
    \/ Feed(1, DragFrames, MaxMsgs)
    \/ Feed(2, DragFrames, DevMsgs)
    \/ \E s \in Sessions : ConnStep(s)
    \/ \E s \in Sessions : DeviceStep(s)

SpecDrag == Init /\ [][NextDrag]_vars

\* The connections and the clipboard channel: Clipboard events from every
\* session, forwarded to every session.
HubFrames == {ClipFrame}

NextHub ==
    \/ \E s \in Sessions : Feed(s, HubFrames, HubMsgs)
    \/ \E s \in Sessions : Close(s, EndFrame)
    \/ \E s \in Sessions : ConnStep(s)
    \/ \E s \in Sessions : Publish(s)
    \/ \E s \in Sessions : ForwardStep(s)

SpecHub == Init /\ [][NextHub]_vars

\* The runtime runs every task that can take a step; the transport and the
\* clients owe nothing.
FairHub ==
    /\ SpecHub
    /\ \A s \in Sessions : WF_vars(ConnStep(s))
    /\ \A s \in Sessions : WF_vars(Publish(s))
    /\ \A s \in Sessions : WF_vars(ForwardStep(s))

DownloadStep(d) ==
    \/ \E id \in Uploads : DownloadLookup(d, id)
    \/ DownloadRead(d)

\* One upload, of a part whose body arrives whole, in two chunks, or with a
\* chunk that fails, and one download, beside the sweep and the clock.
StoreParts ==
    {FilePart(TRUE, "a.txt", <<OkChunk(<<7, 8>>)>>),
     FilePart(TRUE, "b.txt", <<OkChunk(<<7>>), OkChunk(<<8>>)>>),
     FilePart(TRUE, "c.txt", <<OkChunk(<<7>>), ErrChunk(<<8>>)>>),
     FilePart(FALSE, "", <<OkChunk(<<7>>)>>)}

NextStore ==
    \/ UploadNoFile(1)
    \/ \E part \in StoreParts : PendingPubs < MaxPub /\ UploadStart(1, part)
    \/ UploadRun(1)
    \/ \E d \in Downloads : DownloadStep(d)
    \/ SweepStep
    \/ ClockStep

SpecStore == Init /\ [][NextStore]_vars

\* The file store: uploads, the sweep and the clock.
NextFiles ==
    \/ \E u \in Uploads : UploadStep(u)
    \/ SweepStep
    \/ ClockStep

SpecFiles == Init /\ [][NextFiles]_vars

(***************************************************************************)
(* Claims.                                                                 *)
(***************************************************************************)
\* Two entries of the device's stream written by the same emit call.
SameGesture(x, y) == x.s = y.s /\ x.k = y.k /\ x.g = y.g

\* C1: the DeviceActions of one gesture are contiguous in the device's output
\* stream: between two actions written by one emit call there is no action of
\* another session, however the sessions' events interleave.
C1_GesturesContiguous ==
    \A i, j \in 1..Len(devOut) :
        (i < j /\ SameGesture(devOut[i], devOut[j]))
            => \A m \in i..j : devOut[m].s = devOut[i].s

\* One session is in the middle of a gesture (its sync-barrier not yet written)
\* while another session waits for the device.
C1_Witness ==
    \E s, t \in Sessions :
        /\ s # t
        /\ devLock = s
        /\ pc[t] = "lockdev"
        /\ devOut # << >>
        /\ devOut[Len(devOut)].s = s
        /\ devOut[Len(devOut)].a # Syn


\* The clipboard_history messages written to a connection, in order.
Clips(s) == SelectSeq(out[s], LAMBDA x : x.type = "clipboard_history")

\* The forwarding task waits in recv() with nothing left to take.
CaughtUp(s) == fpc[s] = "recv" /\ cursor[s] = Len(hubLog)

\* C2: a subscribed session is sent the items published since it subscribed in
\* publish order, each once and none skipped, and once its forwarding task has
\* caught up it has been sent all of them.
C2_DeliveredInPublishOrder ==
    \A s \in Sessions :
        subPos[s] >= 0 =>
            /\ \A i \in 1..Len(Clips(s)) :
                   /\ Clips(s)[i].n = subPos[s] + i
                   /\ Clips(s)[i] = HistoryMsg(subPos[s] + i)
            /\ CaughtUp(s) => Len(Clips(s)) = Len(hubLog) - subPos[s]

\* Both sessions have been sent the same two or more items and have caught up.
C2_Witness ==
    \A s \in Sessions :
        /\ CaughtUp(s)
        /\ subPos[s] = 0
        /\ Len(Clips(s)) >= 2
        /\ Len(Clips(s)) = Len(hubLog)

\* C8: a session is sent no item published before it subscribed.
C8_OnlyLaterItems ==
    \A s \in Sessions :
        \A i \in 1..Len(out[s]) :
            out[s][i].type = "clipboard_history"
                => /\ subPos[s] >= 0
                   /\ out[s][i].n > subPos[s]

\* A session that subscribed after another session's item was published has been
\* sent a later item.
C8_Witness ==
    \E s \in Sessions :
        /\ subPos[s] >= 1
        /\ hubLog[subPos[s]].from[1] # s
        /\ Len(Clips(s)) >= 1

\* C6: at most one write to a connection's outbound channel is in progress;
\* the acknowledgment is written before the session subscribes and before the
\* forwarding task exists, and the forwarding task writes holding the send lock.
C6_SingleWriter ==
    \A s \in Sessions :
        /\ Cardinality(writing[s]) <= 1
        /\ "main" \in writing[s] => (subPos[s] = -1 /\ fpc[s] = "none")
        /\ "fwd" \in writing[s] => wsLock[s] = "fwd"
        /\ (subPos[s] >= 0 \/ fpc[s] # "none") => pc[s] \notin {"idle", "ack", "acking"}

\* The forwarding task is writing to a connection whose acknowledgment was
\* written, with a further item waiting behind it.
C6_Witness ==
    \E s \in Sessions :
        /\ "fwd" \in writing[s]
        /\ Len(out[s]) >= 1
        /\ out[s][1] = ConnectedMsg
        /\ cursor[s] < Len(hubLog)


\* The frame numbers of the entries a session has on the device and on the
\* channel.
DeviceKs(s) == {devOut[i].k : i \in {j \in 1..Len(devOut) : devOut[j].s = s}}
HubKs(s) == {hubLog[i].from[2] : i \in {j \in 1..Len(hubLog) : hubLog[j].from[1] = s}}

\* C7: a session handles its frames one at a time in arrival order: whatever it
\* has put on the device or on the channel comes from a frame that arrived
\* before every frame still unread and no later than the frame in hand, and its
\* entries on the device and on the channel are in arrival order.
C7_ArrivalOrder ==
    \A s \in Sessions :
        /\ \A k \in DeviceKs(s) \cup HubKs(s) :
               /\ \A i \in Range(inbox[s]) : k < i
               /\ hand[s] # None => k <= hand[s]
        /\ hand[s] # None => \A i \in Range(inbox[s]) : hand[s] < i
        /\ \A i, j \in 1..Len(devOut) :
               (i < j /\ devOut[i].s = s /\ devOut[j].s = s) => devOut[i].k <= devOut[j].k
        /\ \A i, j \in 1..Len(hubLog) :
               (i < j /\ hubLog[i].from[1] = s /\ hubLog[j].from[1] = s)
                   => hubLog[i].from[2] < hubLog[j].from[2]

\* A session's first frame is on the device and its second on the channel.
C7_Witness ==
    \E s \in Sessions :
        /\ 1 \in DeviceKs(s)
        /\ 2 \in HubKs(s)
        /\ Len(arrived[s]) >= 2

\* Frame k of session s has been read and its handling is over.
Handled(s, k) == k \in 1..Len(arrived[s]) /\ k \notin Range(inbox[s]) /\ hand[s] # k

\* The positions on the channel of the items that come from frame k of s.
ItemsOf(s, k) == {i \in 1..Len(hubLog) : hubLog[i].from = <<s, k>>}

\* Receiver t was given the item at position i: it has been written to t's
\* connection, or is still to be taken or in t's hands, or t's forwarding task
\* has ended.
Fanned(t, i) ==
    \/ \E j \in 1..Len(out[t]) : out[t][j] = HistoryMsg(i)
    \/ cursor[t] < i
    \/ cursor[t] = i /\ fpc[t] \in {"lock", "sending"}
    \/ fpc[t] = "done"

\* C9: a Clipboard event puts nothing on the device and, once handled, exactly
\* one item on the channel, with the event's content and source "Client"; the
\* item goes to every receiver subscribed before it, the sender's included.
C9_ClipboardToHubOnly ==
    \A s \in Sessions :
        \A k \in 1..Len(arrived[s]) :
            IsClipboard(arrived[s][k]) =>
                /\ k \notin DeviceKs(s)
                /\ Cardinality(ItemsOf(s, k)) = IF Handled(s, k) THEN 1 ELSE 0
                /\ \A i \in ItemsOf(s, k) :
                       /\ hubLog[i].content = <<Decode(arrived[s][k]).content>>
                       /\ hubLog[i].source = "Client"
                       /\ \A t \in Sessions : (subPos[t] >= 0 /\ subPos[t] < i) => Fanned(t, i)

\* The sender and the listener have both been sent the sender's item.
C9_Witness ==
    \E s \in Sessions :
        \E k \in 1..Len(arrived[s]) :
            /\ IsClipboard(arrived[s][k])
            /\ Handled(s, k)
            /\ \A t \in Sessions :
                   \E i \in ItemsOf(s, k), j \in 1..Len(out[t]) : out[t][j] = HistoryMsg(i)

\* Frame k of session s is neither the end of the stream nor a RemoteEvent.
Undecodable(s, k) == ~IsLast(arrived[s][k]) /\ ~Decodes(arrived[s][k])

\* The frame the main task of s reads in this step.
FrameRead(s) == CHOOSE k \in Range(inbox[s]) : k \notin Range(inbox'[s])

\* The main task of s reads a frame in this step.
Reads(s) == pc[s] = "loop" /\ Len(inbox'[s]) < Len(inbox[s])

\* C10: a frame that does not decode is discarded: nothing on the device or on
\* the channel ever comes from it, and the step that reads it changes neither
\* the device, the channel, the file store nor any connection's output, and
\* leaves the session waiting for its next frame.
C10_UndecodableDiscarded ==
    /\ [](\A s \in Sessions :
            \A k \in 1..Len(arrived[s]) :
                Undecodable(s, k) =>
                    /\ k \notin DeviceKs(s) \cup HubKs(s)
                    /\ hand[s] # k)
    /\ [][\A s \in Sessions :
            (Reads(s) /\ Undecodable(s, FrameRead(s)))
                => /\ pc'[s] = "loop"
                   /\ UNCHANGED <<devOut, devLock, hubLog, out, index, blobs>>]_vars

\* A session has discarded its first frame and handled its second.
C10_Witness ==
    \E s \in Sessions :
        /\ Len(arrived[s]) >= 2
        /\ Undecodable(s, 1)
        /\ 2 \in DeviceKs(s) \cup HubKs(s)


\* The transport has signalled the end of the connection of s.
Closed(s) == pc[s] # "idle" /\ ~ConnOpen(s)

\* C5: after a session's connection closes, its forwarding task eventually
\* ends (and with it the session's subscription to the channel).
C5_ForwarderEnds ==
    \A s \in Sessions : Closed(s) ~> (fpc[s] = "done")

PassOver == spc = "sleep" /\ swept

Written(s, k) == {i \in 1..Len(devOut) : devOut[i].s = s /\ devOut[i].k = k}

\* handle_event has returned for frame k of session s, with Ok(()) or with a
\* DeviceError.
ReturnedOk(s, k) == [s |-> s, k |-> k, ok |-> TRUE] \in results
Failed(s, k) == [s |-> s, k |-> k, ok |-> FALSE] \in results

\* handle_event returns an error to session s in this step.
Fails(s) == pc[s] = "emit" /\ cur[s] # << >> /\ pc'[s] # "emit"

\* C11: a device write failure is session-local.  The step in which handle_event
\* returns the error releases the device, leaves the session in its read loop
\* with its unread frames and its connection as they were, and touches no other
\* session; the device is only ever held by a session inside handle_event, so a
\* session waiting for it can take it whenever no session is inside.
C11_DeviceErrorSessionLocal ==
    /\ [](\A s \in Sessions :
            /\ devLock = s => pc[s] = "emit"
            /\ (pc[s] = "lockdev" /\ \A t \in Sessions : pc[t] # "emit")
                   => ENABLED DevLock(s))
    /\ [][\A s \in Sessions :
            Fails(s) =>
                /\ devLock' = None
                /\ pc'[s] = "loop"
                /\ inbox'[s] = inbox[s]
                /\ arrived' = arrived
                /\ devOut' = devOut
                /\ fpc' = fpc
                /\ \A t \in Sessions \ {s} :
                       pc'[t] = pc[t] /\ cur'[t] = cur[t] /\ hand'[t] = hand[t]]_vars

\* A session's first event failed after part of it was written; afterwards the
\* same session put its next event on the device and another session wrote a
\* whole gesture.
C11_Witness ==
    \E s, t \in Sessions :
        /\ s # t
        /\ Failed(s, 1)
        /\ Written(s, 2) # {}
        /\ \E i \in Written(s, 1), j \in 1..Len(devOut) :
               j > i /\ devOut[j].s = t /\ devOut[j].a = Syn

\* The event an entry of the device's stream comes from.
EventOf(x) == Decode(arrived[x.s][x.k])

\* The entries of the device's stream that press and release the left button.
LeftDown(i) == devOut[i].a = Key("BTN_LEFT", 1)
LeftUp(i) == devOut[i].a = Key("BTN_LEFT", 0)

\* The entry at position i belongs to an event that was processed without
\* error.
Whole(i) == ReturnedOk(devOut[i].s, devOut[i].k)

\* C12: after the key-down of a DragStart that was processed without error,
\* the left button is not released before the key-up of a DragEnd: every
\* key-up of the left button that follows the DragStart's key-down in the
\* device's stream is a DragEnd's, or has a DragEnd's key-up between the
\* key-down and itself.
C12_DragHeldUntilDragEnd ==
    \A i, j \in 1..Len(devOut) :
        (/\ i < j
         /\ LeftDown(i)
         /\ EventOf(devOut[i]).type = "drag_start"
         /\ Whole(i)
         /\ LeftUp(j))
            => \E m \in (i + 1)..j :
                   LeftUp(m) /\ EventOf(devOut[m]).type = "drag_end"

\* The DeviceActions of frame k of session s on the device, in order, each with
\* the number of the emit call that wrote it.
ActionsOf(s, k) == SelectSeq(devOut, LAMBDA x : x.s = s /\ x.k = k)

\* Modifier down, arrow down, arrow up, modifier up, each with its sync-barrier.
FourGestures(arrow) ==
    << [g |-> 1, a |-> Key("KEY_LEFTALT", 1)], [g |-> 1, a |-> Syn],
       [g |-> 2, a |-> Key(arrow, 1)], [g |-> 2, a |-> Syn],
       [g |-> 3, a |-> Key(arrow, 0)], [g |-> 3, a |-> Syn],
       [g |-> 4, a |-> Key("KEY_LEFTALT", 0)], [g |-> 4, a |-> Syn] >>

\* The entries of the device's stream without their origin.
Plain(w) == [i \in DOMAIN w |-> [g |-> w[i].g, a |-> w[i].a]]

\* Session s leaves handle_event in this step.
Returns(s) == pc[s] = "emit" /\ pc'[s] # "emit"

\* C13: a Swipe with direction left or right that handle_event processes
\* without error has put exactly four gestures on the device, in the order
\* modifier down, arrow down, arrow up, modifier up, each closed by its own
\* sync-barrier, the arrow being the left or right key of the direction, and
\* while it is being processed the device has a prefix of them; a Swipe with
\* any other direction puts nothing on the device and returns Ok.
C13_SwipeFourGestures ==
    /\ [](\A s \in Sessions :
            \A k \in 1..Len(arrived[s]) :
                (Decodes(arrived[s][k]) /\ Decode(arrived[s][k]).type = "swipe") =>
                    LET d == Decode(arrived[s][k]).direction
                        w == Plain(ActionsOf(s, k))
                    IN  IF d \in {"left", "right"}
                        THEN LET arrow == IF d = "left" THEN "KEY_LEFT" ELSE "KEY_RIGHT"
                             IN  /\ IsPrefix(w, FourGestures(arrow))
                                 /\ ReturnedOk(s, k) => w = FourGestures(arrow)
                        ELSE /\ w = << >>
                             /\ ~Failed(s, k))
    /\ [][\A s \in Sessions :
            (/\ Returns(s)
             /\ Decode(arrived[s][hand[s]]).type = "swipe"
             /\ Decode(arrived[s][hand[s]]).direction \notin {"left", "right"})
                => /\ [s |-> s, k |-> hand[s], ok |-> TRUE] \in results'
                   /\ devOut' = devOut]_vars

\* A swipe to the right and a swipe upward have both returned Ok, the first
\* with eight actions on the device and the second with none.
C13_Witness ==
    \E s \in Sessions :
        \E k, l \in 1..Len(arrived[s]) :
            /\ arrived[s][k] = SwipeFrame("right")
            /\ ReturnedOk(s, k)
            /\ Len(ActionsOf(s, k)) = 8
            /\ arrived[s][l] = SwipeFrame("up")
            /\ ReturnedOk(s, l)
            /\ ActionsOf(s, l) = << >>

\* n/d rounded to the nearest integer (n/d is never at a half here).
Round(n, d) ==
    IF n >= 0 THEN (2 * n + d) \div (2 * d) ELSE -((2 * (-n) + d) \div (2 * d))

\* The positions in a sequence of DeviceActions of the actions on an axis.
OnAxis(acts, axis) == {i \in DOMAIN acts : acts[i][1] = "REL" /\ acts[i][2] = axis}

\* C14: the gesture of a Scroll{dx,dy} processed without error is one emit
\* call that holds a vertical wheel action exactly when |dy| > 0.1, with delta
\* round(dy/10), a horizontal wheel action exactly when |dx| > 0.1, with delta
\* -round(dx/10), and exactly one sync-barrier, at its end, and nothing else.
C14_ScrollRounded ==
    \A s \in Sessions :
        \A k \in 1..Len(arrived[s]) :
            (/\ Decodes(arrived[s][k])
             /\ Decode(arrived[s][k]).type = "scroll"
             /\ ReturnedOk(s, k)) =>
                LET e == Decode(arrived[s][k])
                    w == ActionsOf(s, k)
                    acts == [i \in DOMAIN w |-> w[i].a]
                    v == OnAxis(acts, "REL_WHEEL")
                    h == OnAxis(acts, "REL_HWHEEL")
                IN  /\ \A i \in DOMAIN w : w[i].g = 1
                    /\ Cardinality(v) = IF Abs(e.dy) > 10 THEN 1 ELSE 0
                    /\ \A i \in v : acts[i][3] = Round(e.dy, 1000)
                    /\ Cardinality(h) = IF Abs(e.dx) > 10 THEN 1 ELSE 0
                    /\ \A i \in h : acts[i][3] = -Round(e.dx, 1000)
                    /\ Len(acts) = Cardinality(v) + Cardinality(h) + 1
                    /\ acts[Len(acts)] = Syn

\* The bytes the client sent in a part: those of all its chunks.
RECURSIVE SentBytes(_)
SentBytes(chunks) ==
    IF chunks = << >> THEN << >>
    ELSE Head(chunks).bytes \o SentBytes(Tail(chunks))

\* C15: a download that begins after the upload of a filename and bytes has
\* replied with its id, and that ends with no sweep pass having removed the
\* record, returns exactly the uploaded bytes and the uploaded filename, and
\* the listing shows a record of that id whose size is the number of uploaded
\* bytes.
C15_PutGetRoundTrip ==
    \A d \in Downloads :
        (/\ dpc[d] = "done"
         /\ dl[d].after
         /\ upl[dl[d].id].named
         /\ Has(dl[d].id)) =>
            LET u == dl[d].id
                sent == SentBytes(upl[u].chunks)
            IN  /\ dl[d].reply.status = "ok"
                /\ dl[d].reply.body = sent
                /\ dl[d].reply.disposition[2] = upl[u].filename
                /\ \E r \in List : r.id = u /\ r.size = Len(sent)

\* The records of the current pass's snapshot that the pass set out to remove.
SnapshotExpired == {r \in sweepSeen : Expired(snow, r.uploaded_at)}

\* The records of the current pass whose blob could not be deleted.
FailedInPass == {r \in SnapshotExpired : r.id \in unlinkFailed}

\* remove_file fails in this step.
UnlinkFails == spc = "unlink" /\ unlinkFailed' # unlinkFailed

\* C16: a blob deletion that fails does not abort the pass.  The failing step
\* only drops that id from the ids to remove and goes on with the rest, or to
\* the next sleep when none is left; a pass in which a deletion failed still
\* ends with every other record of its snapshot that was expired out of the
\* index and without its blob; and after such a pass the sweep is asleep and
\* can wake for the next one.
C16_SweepToleratesFailure ==
    /\ [][UnlinkFails =>
            /\ expired' = expired \ {scur}
            /\ spc' = IF expired' = {} THEN "sleep" ELSE "rm"
            /\ index' = index
            /\ blobs' = blobs
            /\ poisoned' = poisoned]_vars
    /\ []((spc \in {"rm", "unlink"} /\ FailedInPass # {}) =>
            \A r \in SnapshotExpired :
                \/ r.id \in expired \cup {scur}
                \/ r.id \in unlinkFailed
                \/ ~Has(r.id) /\ ~HasBlob(r.id))
    /\ []((PassOver /\ FailedInPass # {}) =>
            /\ \A r \in SnapshotExpired \ FailedInPass : ~Has(r.id) /\ ~HasBlob(r.id)
            /\ \A r \in FailedInPass : ~Has(r.id)
            /\ expired = {}
            /\ ENABLED SweepWake)

\* A pass has ended in which the deletion of one expired record's blob failed
\* and another expired record was removed with its blob.
C16_Witness ==
    /\ PassOver
    /\ \E r, q \in SnapshotExpired :
           /\ r \in FailedInPass
           /\ HasBlob(r.id)
           /\ ~Has(r.id)
           /\ q \notin FailedInPass
           /\ ~Has(q.id)
           /\ ~HasBlob(q.id)

\* C17: the forwarding task of a session that stays connected keeps running,
\* however far the session falls behind: it ends only once the connection has
\* closed.
C17_LaggingForwarderRuns ==
    \A s \in Sessions : fpc[s] = "done" => ~ConnOpen(s)

\* handle_event has returned for frame k of session s.
Returned(s, k) == ReturnedOk(s, k) \/ Failed(s, k)

\* C18: once handle_event has returned for a Click, Swipe or ArrowKey event,
\* with Ok or with a DeviceError, every key-down it wrote to the device in a
\* gesture it completed is followed by the key-up of the same key, written by
\* the same call.
C18_NoKeyLeftDown ==
    \A s \in Sessions :
        \A k \in 1..Len(arrived[s]) :
            (/\ Decodes(arrived[s][k])
             /\ Decode(arrived[s][k]).type \in {"click", "swipe", "arrow_key"}
             /\ Returned(s, k)) =>
                LET w == ActionsOf(s, k)
                IN  \A i \in DOMAIN w :
                        (/\ w[i].a[1] = "KEY"
                         /\ w[i].a[3] = 1
                         /\ i < Len(w)
                         /\ w[i + 1].a = Syn)
                            => \E j \in (i + 1)..Len(w) : w[j].a = Key(w[i].a[2], 0)

\* C19: the device is held for the whole handling of one event: between two
\* DeviceActions of the same event, of whatever gestures, the device's stream
\* has no action of another session.
C19_EventContiguous ==
    \A i, j \in 1..Len(devOut) :
        (i < j /\ devOut[i].s = devOut[j].s /\ devOut[i].k = devOut[j].k)
            => \A m \in i..j : devOut[m].s = devOut[i].s

\* A session has completed one gesture of an event and still has a gesture of
\* it to emit, while another session waits for the device.
C19_Witness ==
    \E s, t \in Sessions :
        /\ s # t
        /\ pc[s] = "emit"
        /\ cur[s] # << >>
        /\ pc[t] = "lockdev"
        /\ devOut # << >>
        /\ devOut[Len(devOut)].s = s
        /\ devOut[Len(devOut)].k = hand[s]
        /\ devOut[Len(devOut)].a = Syn

\* The positions on the channel of the upload notifications.
Notifications == {i \in 1..Len(hubLog) : hubLog[i].source = "System"}

=============================================================================
